---- MODULE Spec2Model ----
(***************************************************************************)
(* nvm-desktop: project/group configuration transactions, marker-file      *)
(* synchronisation (src-tauri/src/core/project.rs) and the download        *)
(* progress throttle (src-tauri/src/cmds.rs).                              *)
(***************************************************************************)
EXTENDS Integers, Sequences, FiniteSets, TLC

VARIABLES
    projects,        \* Config::projects(): [persisted, working]
    groups,          \* Config::groups():   [persisted, working]
    pFile,           \* projects.json as last saved by save_file
    gFile,           \* groups.json as last saved by save_file
    dirs,            \* project directories that exist on disk
    marker,          \* path -> the .nvmdrc file in that directory
    tx,              \* task -> the change_with_* call that task is running
    started,         \* number of change_with_* calls started so far
    call,            \* the last stand-alone sync_project_version call
    batch,           \* the running batch_update_project_version call
    clock,           \* tokio Instant::now(), in ms since install_node began
    last_emit_time,  \* Arc<Mutex<Instant>> value of install_node
    lock,            \* holder of the last_emit_time mutex (0: free)
    tick,            \* ticker -> the on_progress call that ticker is running
    ticked,          \* the on_progress calls completed so far, oldest first
    emitted,         \* the progress events emitted so far, oldest first
    hist             \* the last ConfigStore operation made on its own

cfgVars == <<projects, groups, pFile, gFile>>
fsVars == <<dirs, marker>>
txVars == <<tx, started>>
thrVars == <<clock, last_emit_time, lock, tick, ticked, emitted>>
vars == <<projects, groups, pFile, gFile, dirs, marker, tx, started, call,
          batch, clock, last_emit_time, lock, tick, ticked, emitted, hist>>

---------------------------------------------------------------------------
(* Strings are sequences of characters, so that a file's content can be    *)
(* compared with, and be longer or shorter than, a version string.         *)

V18 == <<"1", "8">>
V20 == <<"2", "0", "1">>
Lts == <<"l", "t", "s">>
Old == <<"o", "l", "d">>
Dev == <<"d", "e", "v">>

Versions == {V18, V20}
Names == {"A", "B", "Z"}
Paths == {"/a", "/b", "/c"}
ProjectPaths == {"/a", "/b"}

NoFile == [exists |-> FALSE, content |-> <<>>]
FileOf(s) == [exists |-> TRUE, content |-> s]

\* The marker files a directory can hold when the program starts.
StartFiles == {NoFile, FileOf(V18), FileOf(V20)}

\* File systems the program can start on: no file without its directory.
Disks ==
    {d \in [dirs : SUBSET Paths, marker : [Paths -> StartFiles]] :
        \A p \in Paths : d.marker[p].exists => p \in d.dirs}

\* Those on which only the registered projects' directories may exist.
StartDisks == {d \in Disks : d.dirs \subseteq ProjectPaths}

---------------------------------------------------------------------------
(* help::save_string(path, content): create or truncate the file, then     *)
(* write the whole content.  It fails when the directory is missing or the *)
(* write meets an I/O error (io = FALSE), and then leaves the file alone.  *)

Truncate(file) == [exists |-> TRUE, content |-> <<>>]

WriteAll(file, s) == [file EXCEPT !.content = s \o
                         SubSeq(file.content, Len(s) + 1, Len(file.content))]

save_string(ds, mk, path, s, io) ==
    IF path \in ds /\ io
    THEN [ok |-> TRUE, marker |-> [mk EXCEPT ![path] = WriteAll(Truncate(@), s)]]
    ELSE [ok |-> FALSE, marker |-> mk]

(* sync_project_version(path, version): Ok(404) without a write when the   *)
(* directory is missing, else save_string on path/.nvmdrc and Ok(200); an  *)
(* error of save_string is returned by the `?`.                            *)

\* The same without the test of the directory: the write is tried at once.
sync_project_version_no404(ds, mk, path, version, io) ==
    LET w == save_string(ds, mk, path, version, io)
    IN  IF w.ok THEN [ok |-> TRUE, status |-> 200, marker |-> w.marker]
        ELSE [ok |-> FALSE, status |-> 0, marker |-> w.marker]

sync_project_version(ds, mk, path, version, io) ==
    IF path \notin ds
    THEN [ok |-> TRUE, status |-> 404, marker |-> mk]
    ELSE LET w == save_string(ds, mk, path, version, io)
         IN  IF w.ok THEN [ok |-> TRUE, status |-> 200, marker |-> w.marker]
             ELSE [ok |-> FALSE, status |-> 0, marker |-> w.marker]

---------------------------------------------------------------------------
(* ConfigStore (Draft<T>): a persisted snapshot and a working draft.       *)

latest(store) == store.working
data(store) == store.persisted
\* Variants of apply and discard that copy the wrong way or not at all.
apply_reversed(store) == [store EXCEPT !.working = store.persisted]
discard_kept(store) == store
apply(store) == [store EXCEPT !.persisted = store.working]
discard(store) == [store EXCEPT !.working = store.persisted]
StoreOf(value) == [persisted |-> value, working |-> value]

\* save_file: serialise the persisted snapshot; an I/O error leaves the file.
save_file(store, file, io) ==
    IF io THEN [ok |-> TRUE, file |-> data(store)]
    ELSE [ok |-> FALSE, file |-> file]

---------------------------------------------------------------------------
(* Domain data.  A project holds its path and its assigned version, which  *)
(* is an explicit version or a reference to a group; a group holds its     *)
(* name, its version and the paths of its member projects.                 *)

Registered == {"A", "B"}
PathOf(name) == IF name = "A" THEN "/a" ELSE "/b"

Explicit(v) == [kind |-> "explicit", value |-> v]
GroupRef(g) == [kind |-> "group", value |-> g]

StartProjects ==
    [n \in Registered |-> [path |-> PathOf(n), version |-> Explicit(V18)]]

StartGroups ==
    << [name |-> Lts, version |-> V20, projects |-> {}],
       [name |-> Old, version |-> V18, projects |-> {}] >>

HasGroup(list, g) == \E i \in DOMAIN list : list[i].name = g
GroupAt(list, g) == CHOOSE i \in DOMAIN list : list[i].name = g

(* IProjects::update_version(name, version_or_group_name): NotFound when   *)
(* the project is absent; else the working entry becomes a group reference *)
(* when a group of that name exists and an explicit version otherwise, and *)
(* the project's path is returned.                                         *)
update_version(list, glist, name, v) ==
    IF name \notin DOMAIN list
    THEN [ok |-> FALSE, path |-> "", list |-> list]
    ELSE [ok |-> TRUE, path |-> list[name].path,
          list |-> [list EXCEPT ![name].version =
                       IF HasGroup(glist, v) THEN GroupRef(v) ELSE Explicit(v)]]

(* IGroups::update_projects(project_path): the project left whatever group *)
(* it was in; reports whether any member list changed.                     *)
update_projects(glist, path) ==
    LET new == [i \in DOMAIN glist |->
                   [glist[i] EXCEPT !.projects = @ \ {path}]]
    IN  [changed |-> new # glist, list |-> new]

(* IGroups::update_projects_version(project_path, group_name): None when   *)
(* no group has that name; else the path joins that group, leaves every    *)
(* other group, and the group's version is returned.                       *)
update_projects_version(glist, path, g) ==
    IF ~HasGroup(glist, g)
    THEN [found |-> FALSE, version |-> <<>>, list |-> glist]
    ELSE [found |-> TRUE, version |-> glist[GroupAt(glist, g)].version,
          list |-> [i \in DOMAIN glist |->
                       [glist[i] EXCEPT !.projects =
                           IF glist[i].name = g THEN @ \cup {path}
                           ELSE @ \ {path}]]]

---------------------------------------------------------------------------
(* change_with_version and change_with_group.                              *)

Tasks == {1, 2}
MaxTx == 3

NoErr == ""
ErrProject == "project not found"
ErrGroup == "failed to find the group version"
ErrSync == "marker write failed"
ErrSaveProjects == "projects save_file failed"
ErrSaveGroups == "groups save_file failed"

Snapshot(ps, gs) == [projects |-> ps, groups |-> gs]

Idle ==
    [pc |-> "idle", op |-> "none", name |-> "", arg |-> <<>>, path |-> "",
     version |-> <<>>, need |-> FALSE, ok |-> FALSE, err |-> NoErr,
     sync |-> "none", status |-> 0, appliedP |-> FALSE, appliedG |-> FALSE,
     pre |-> Snapshot(StoreOf(StartProjects), StoreOf(StartGroups))]

(* A `?` inside the plain block `let ret = { ... }` returns from the       *)
(* function itself, not from the block: the error leaves with both drafts  *)
(* as they are, and the Err arm of `match ret` is not run.                 *)
early_return(ps, gs, err) ==
    [ok |-> FALSE, err |-> err, projects |-> ps, groups |-> gs]

\* The block of change_with_version without its call of update_projects.
begin_version_groups_kept(ps, gs, name, version) ==
    LET u == update_version(latest(ps), latest(gs), name, version)
        ps1 == [ps EXCEPT !.working = u.list]
    IN  IF ~u.ok
        THEN early_return(ps, gs, ErrProject) @@
             [path |-> "", version |-> <<>>, need |-> FALSE]
        ELSE [ok |-> TRUE, err |-> NoErr, projects |-> ps1, groups |-> gs,
              path |-> u.path, version |-> version, need |-> FALSE]

(* The block of change_with_version up to the await: update_version on the *)
(* projects draft, update_projects on the groups draft.                    *)
begin_version(ps, gs, name, version) ==
    LET u == update_version(latest(ps), latest(gs), name, version)
        ps1 == [ps EXCEPT !.working = u.list]
        g == update_projects(latest(gs), u.path)
        gs1 == [gs EXCEPT !.working = g.list]
    IN  IF ~u.ok
        THEN early_return(ps, gs, ErrProject) @@
             [path |-> "", version |-> <<>>, need |-> FALSE]
        ELSE [ok |-> TRUE, err |-> NoErr, projects |-> ps1, groups |-> gs1,
              path |-> u.path, version |-> version, need |-> g.changed]

(* The block of change_with_group up to the await: update_version with the *)
(* group name, update_projects_version, and the error for None.            *)
begin_group(ps, gs, name, group_name) ==
    LET u == update_version(latest(ps), latest(gs), name, group_name)
        ps1 == [ps EXCEPT !.working = u.list]
        g == update_projects_version(latest(gs), u.path, group_name)
        gs1 == [gs EXCEPT !.working = g.list]
    IN  IF ~u.ok
        THEN early_return(ps, gs, ErrProject) @@
             [path |-> "", version |-> <<>>, need |-> FALSE]
        ELSE IF ~g.found
        THEN early_return(ps1, gs1, ErrGroup) @@
             [path |-> u.path, version |-> <<>>, need |-> FALSE]
        ELSE [ok |-> TRUE, err |-> NoErr, projects |-> ps1, groups |-> gs1,
              path |-> u.path, version |-> g.version, need |-> TRUE]

\* The block going on whatever the awaited call returned.
sync_proceeds_always(r) == TRUE

\* The `?` on the awaited sync_project_version: only Ok lets the block go on.
sync_proceeds(r) == r.ok

\* An Ok arm that applies and saves groups whether needed or not.
commit_both(ps, gs, pf, gf, need, saveP, saveG) ==
    LET ps1 == apply(ps)
        sp == save_file(ps1, pf, saveP)
        gs1 == apply(gs)
        sg == save_file(gs1, gf, saveG)
    IN  IF ~sp.ok
        THEN [ok |-> FALSE, err |-> ErrSaveProjects, projects |-> ps1,
              groups |-> gs, pFile |-> sp.file, gFile |-> gf,
              appliedP |-> TRUE, appliedG |-> FALSE]
        ELSE IF ~sg.ok
        THEN [ok |-> FALSE, err |-> ErrSaveGroups, projects |-> ps1,
              groups |-> gs1, pFile |-> sp.file, gFile |-> sg.file,
              appliedP |-> TRUE, appliedG |-> TRUE]
        ELSE [ok |-> TRUE, err |-> NoErr, projects |-> ps1, groups |-> gs1,
              pFile |-> sp.file, gFile |-> sg.file,
              appliedP |-> TRUE, appliedG |-> TRUE]

(* The Ok arm of `match ret`: apply and save projects, then, when needed,  *)
(* apply and save groups; a failed save_file returns by its `?`.           *)
commit(ps, gs, pf, gf, need, saveP, saveG) ==
    LET ps1 == apply(ps)
        sp == save_file(ps1, pf, saveP)
        gs1 == apply(gs)
        sg == save_file(gs1, gf, saveG)
    IN  IF ~sp.ok
        THEN [ok |-> FALSE, err |-> ErrSaveProjects, projects |-> ps1,
              groups |-> gs, pFile |-> sp.file, gFile |-> gf,
              appliedP |-> TRUE, appliedG |-> FALSE]
        ELSE IF ~need
        THEN [ok |-> TRUE, err |-> NoErr, projects |-> ps1, groups |-> gs,
              pFile |-> sp.file, gFile |-> gf,
              appliedP |-> TRUE, appliedG |-> FALSE]
        ELSE IF ~sg.ok
        THEN [ok |-> FALSE, err |-> ErrSaveGroups, projects |-> ps1,
              groups |-> gs1, pFile |-> sp.file, gFile |-> sg.file,
              appliedP |-> TRUE, appliedG |-> TRUE]
        ELSE [ok |-> TRUE, err |-> NoErr, projects |-> ps1, groups |-> gs1,
              pFile |-> sp.file, gFile |-> sg.file,
              appliedP |-> TRUE, appliedG |-> TRUE]

\* A commit of change_with_group that leaves the groups draft unapplied.
commit_group_projects_only(ps, gs, pf, gf, saveP, saveG) ==
    commit(ps, gs, pf, gf, FALSE, saveP, saveG)

\* change_with_group commits both domains unconditionally.
commit_group(ps, gs, pf, gf, saveP, saveG) ==
    commit(ps, gs, pf, gf, TRUE, saveP, saveG)

\* Command dispatch that runs one change_with_* call at a time.
NoneInFlight == \A u \in Tasks : tx[u].pc # "sync"

(* A task calls change_with_version or change_with_group and runs it up to *)
(* the await on sync_project_version, or to the error that ends it.        *)
TxBegin(t, op, name, arg) ==
    LET b == IF op = "version"
             THEN begin_version(projects, groups, name, arg)
             ELSE begin_group(projects, groups, name, arg)
    IN  /\ tx[t].pc # "sync"
        /\ started < MaxTx
        /\ started' = started + 1
        /\ projects' = b.projects
        /\ groups' = b.groups
        /\ tx' = [tx EXCEPT ![t] =
                     [pc |-> IF b.ok THEN "sync" ELSE "done",
                      op |-> op, name |-> name, arg |-> arg, path |-> b.path,
                      version |-> b.version, need |-> b.need, ok |-> FALSE,
                      err |-> b.err, sync |-> "none", status |-> 0,
                      appliedP |-> FALSE, appliedG |-> FALSE,
                      pre |-> Snapshot(projects, groups)]]
        /\ UNCHANGED <<pFile, gFile, dirs, marker>>

(* The awaited sync_project_version completes and the call runs to its     *)
(* return: the error of the write, or the Ok arm of `match ret`.           *)
TxFinish(t, io, saveP, saveG) ==
    LET r == sync_project_version(dirs, marker, tx[t].path, tx[t].version, io)
        e == early_return(projects, groups, ErrSync)
        c == IF tx[t].op = "version"
             THEN commit(projects, groups, pFile, gFile, tx[t].need, saveP, saveG)
             ELSE commit_group(projects, groups, pFile, gFile, saveP, saveG)
    IN  /\ tx[t].pc = "sync"
        /\ marker' = r.marker
        /\ IF sync_proceeds(r)
           THEN /\ projects' = c.projects
                /\ groups' = c.groups
                /\ pFile' = c.pFile
                /\ gFile' = c.gFile
                /\ tx' = [tx EXCEPT ![t].pc = "done", ![t].ok = c.ok,
                             ![t].err = c.err, ![t].status = r.status,
                             ![t].sync = IF r.ok THEN "ok" ELSE "err",
                             ![t].appliedP = c.appliedP,
                             ![t].appliedG = c.appliedG]
           ELSE /\ projects' = e.projects
                /\ groups' = e.groups
                /\ tx' = [tx EXCEPT ![t].pc = "done", ![t].ok = FALSE,
                             ![t].err = e.err, ![t].status = r.status,
                             ![t].sync = "err"]
                /\ UNCHANGED <<pFile, gFile>>
        /\ UNCHANGED <<dirs, started>>

---------------------------------------------------------------------------
(* Values of the variables a specification leaves alone.                   *)

NoCall ==
    [made |-> FALSE, path |-> "", version |-> <<>>, io |-> TRUE,
     existed |-> FALSE, before |-> [p \in Paths |-> NoFile],
     ok |-> FALSE, status |-> 0]

NoBatch ==
    [pc |-> "idle", paths |-> <<>>, version |-> <<>>, next |-> 1,
     in_flight |-> {}, result |-> <<>>, ok |-> FALSE, err |-> 0]

NoTick == [pc |-> "idle", now |-> 0, transferred |-> 0]

NoHist ==
    [op |-> "none", prev |-> "none", n |-> 0, base |-> StartProjects,
     before |-> StoreOf(StartProjects)]

Tickers == {1, 2}

InitConfig ==
    /\ projects = StoreOf(StartProjects)
    /\ groups = StoreOf(StartGroups)
    /\ pFile = StartProjects
    /\ gFile = StartGroups

InitDisk ==
    \E d \in StartDisks : dirs = d.dirs /\ marker = d.marker

InitRest ==
    /\ tx = [t \in Tasks |-> Idle]
    /\ started = 0
    /\ call = NoCall
    /\ batch = NoBatch
    /\ clock = 0
    /\ last_emit_time = 0
    /\ lock = 0
    /\ tick = [k \in Tickers |-> NoTick]
    /\ ticked = <<>>
    /\ emitted = <<>>
    /\ hist = NoHist

Init == InitConfig /\ InitDisk /\ InitRest

---------------------------------------------------------------------------
(* Spec: change_with_version and change_with_group, dispatched one call at *)
(* a time.                                                                 *)

Serial == {1}
Ops == {"version", "group"}
Args(op) == IF op = "version" THEN Versions ELSE {Lts, Old, Dev}

Next ==
    \/ \E t \in Serial, op \in Ops, name \in Names :
          \E arg \in Args(op) : NoneInFlight /\ TxBegin(t, op, name, arg)
                                   /\ UNCHANGED <<call, batch, thrVars, hist>>
    \/ \E t \in Serial, io \in BOOLEAN, saveP \in BOOLEAN, saveG \in BOOLEAN :
          TxFinish(t, io, saveP, saveG) /\ UNCHANGED <<call, batch, thrVars, hist>>

Spec == Init /\ [][Next]_vars

---------------------------------------------------------------------------
(* Claims about the transactions, checked under Spec.                      *)

Returned(t) == tx[t].pc = "done"
Failed(t) == Returned(t) /\ ~tx[t].ok

(* C1 (as claimed): when change_with_version or change_with_group returns  *)
(* the error of update_version, of the group update step or of the marker  *)
(* write, both working drafts equal the persisted snapshots the call       *)
(* started from.                                                           *)
C1_DraftsDiscardedOnError ==
    \A t \in Tasks :
        (Failed(t) /\ tx[t].err \in {ErrProject, ErrGroup, ErrSync})
        => /\ latest(projects) = data(tx[t].pre.projects)
           /\ latest(groups) = data(tx[t].pre.groups)

(* C2 (as claimed): once a call has returned, with Ok or with any error,   *)
(* the persisted projects never hold the call's change while the persisted *)
(* groups lack the change the call made to the groups draft.               *)
C2_NoPartialCommit ==
    \A t \in Tasks :
        Returned(t)
        => ~ /\ data(projects) # data(tx[t].pre.projects)
             /\ data(projects) = latest(projects)
             /\ latest(groups) # latest(tx[t].pre.groups)
             /\ data(groups) # latest(groups)

(* C3: when the marker write of sync_project_version fails inside a call,  *)
(* the call returns an error and has applied nothing: both persisted       *)
(* snapshots are the ones the call started from.                           *)
C3_SyncErrorAppliesNothing ==
    \A t \in Tasks :
        (Returned(t) /\ tx[t].sync = "err")
        => /\ ~tx[t].ok
           /\ data(projects) = data(tx[t].pre.projects)
           /\ data(groups) = data(tx[t].pre.groups)
           /\ ~tx[t].appliedP /\ ~tx[t].appliedG

\* C3's case: a marker write failed while both drafts held the call's change.
C3_Witness ==
    \E t \in Tasks :
        /\ Returned(t) /\ tx[t].sync = "err" /\ tx[t].err = ErrSync
        /\ tx[t].op = "group"
        /\ latest(projects) # data(projects)
        /\ latest(groups) # data(groups)

(* C4 (as claimed): change_with_group on a registered project with the     *)
(* name of no group fails with the group-not-found error and leaves both   *)
(* working drafts as they were before the call.                            *)
C4_UnknownGroupRollsBack ==
    \A t \in Tasks :
        (/\ Returned(t) /\ tx[t].op = "group"
         /\ tx[t].name \in DOMAIN latest(tx[t].pre.projects)
         /\ ~HasGroup(latest(tx[t].pre.groups), tx[t].arg))
        => /\ tx[t].err = ErrGroup
           /\ latest(projects) = latest(tx[t].pre.projects)
           /\ latest(groups) = latest(tx[t].pre.groups)

---------------------------------------------------------------------------
(* SpecSync: sync_project_version called on its own, on any disk, with any *)
(* path and version, the write meeting an I/O error or not.                *)

SyncCall(path, version, io) ==
    LET r == sync_project_version(dirs, marker, path, version, io)
    IN  /\ marker' = r.marker
        /\ call' = [made |-> TRUE, path |-> path, version |-> version,
                    io |-> io, existed |-> path \in dirs, before |-> marker,
                    ok |-> r.ok, status |-> r.status]
        /\ UNCHANGED <<cfgVars, dirs, txVars, batch, thrVars, hist>>

InitSync ==
    /\ InitConfig /\ InitRest
    /\ \E d \in Disks : dirs = d.dirs /\ marker = d.marker

NextSync ==
    \E path \in Paths, version \in Versions, io \in BOOLEAN :
        SyncCall(path, version, io)

SpecSync == InitSync /\ [][NextSync]_vars

(* C5: sync_project_version on a missing directory returns 404 and writes  *)
(* nothing; on an existing directory it returns 200 and path/.nvmdrc then  *)
(* holds exactly the version, whatever it held before, every other file    *)
(* being left alone.  (An existing directory whose write meets an I/O      *)
(* error is neither case: the error is returned and no status is.)         *)
C5_SyncStatusAndContent ==
    call.made =>
      /\ ~call.existed =>
            call.ok /\ call.status = 404 /\ marker = call.before
      /\ (call.existed /\ call.io) =>
            /\ call.ok /\ call.status = 200
            /\ marker[call.path] = FileOf(call.version)
            /\ \A p \in Paths \ {call.path} : marker[p] = call.before[p]
      /\ call.ok => call.status \in {200, 404}
      /\ call.status = 200 => marker[call.path].content = call.version

\* C5's case: a 200 over a file that held a longer version string.
C5_Witness ==
    /\ call.made /\ call.existed /\ call.status = 200
    /\ call.before[call.path].exists
    /\ Len(call.before[call.path].content) > Len(call.version)
    /\ marker[call.path].content = call.version

---------------------------------------------------------------------------
(* batch_update_project_version(paths, version): one save_string per path  *)
(* through buffer_unordered(3), all results collected, then the first Err  *)
(* among them returned.  A write is in flight from the moment the stream   *)
(* takes it from the iterator until it completes.                          *)

Concurrency == 3
MaxBatch == 4

\* Sequences over S of length at most n.
SeqsUpTo(S, n) == UNION {[1..k -> S] : k \in 0..n}

\* The iterator still holds a path.
can_admit_unbounded(b) == b.next <= Len(b.paths)

\* buffer_unordered takes the next path while fewer than 3 are in progress.
can_admit(b) ==
    b.next <= Len(b.paths) /\ Cardinality(b.in_flight) < Concurrency

\* A collection that also ends at the first failed write.
collected_or_failed(b) ==
    \/ ~can_admit_unbounded(b) /\ b.in_flight = {}
    \/ \E k \in DOMAIN b.result : ~b.result[k].ok

\* collect::<Vec<_>>() ends when the iterator is drained and nothing is left
\* in progress.
collected(b) == b.next > Len(b.paths) /\ b.in_flight = {}

\* A loop that drops every result.
first_err_ignored(result) == [ok |-> TRUE, err |-> 0]

\* `for ret in result { ret?; }`: the first Err in completion order, else Ok.
first_err(result) ==
    LET bad == {k \in DOMAIN result : ~result[k].ok}
    IN  IF bad = {} THEN [ok |-> TRUE, err |-> 0]
        ELSE [ok |-> FALSE,
              err |-> result[CHOOSE k \in bad : \A j \in bad : k <= j].i]

BatchStart(paths, version) ==
    /\ batch.pc = "idle"
    /\ batch' = [NoBatch EXCEPT !.pc = "run", !.paths = paths,
                                !.version = version]
    /\ UNCHANGED <<cfgVars, fsVars, txVars, call, thrVars, hist>>

\* The stream takes the next path: its write starts.
BatchAdmit ==
    /\ batch.pc = "run"
    /\ can_admit(batch)
    /\ batch' = [batch EXCEPT !.in_flight = @ \cup {batch.next},
                              !.next = @ + 1]
    /\ UNCHANGED <<cfgVars, fsVars, txVars, call, thrVars, hist>>

\* A write in progress completes, once the stream has taken all it can.
BatchComplete(i, io) ==
    LET w == save_string(dirs, marker, batch.paths[i], batch.version, io)
    IN  /\ batch.pc = "run"
        /\ ~can_admit(batch)
        /\ i \in batch.in_flight
        /\ marker' = w.marker
        /\ batch' = [batch EXCEPT !.in_flight = @ \ {i},
                        !.result = Append(@, [i |-> i, ok |-> w.ok])]
        /\ UNCHANGED <<cfgVars, dirs, txVars, call, thrVars, hist>>

\* All results are collected: the function returns.
BatchReturn ==
    LET r == first_err(batch.result)
    IN  /\ batch.pc = "run"
        /\ collected(batch)
        /\ batch' = [batch EXCEPT !.pc = "done", !.ok = r.ok, !.err = r.err]
        /\ UNCHANGED <<cfgVars, fsVars, txVars, call, thrVars, hist>>

\* Disks for the batch: "/c" may be missing, and every directory that exists
\* holds a marker longer than the version to write.
BatchDisks ==
    {d \in Disks : /\ Paths \ {"/c"} \subseteq d.dirs
                   /\ \A p \in Paths : d.marker[p] =
                         IF p \in d.dirs THEN FileOf(V20) ELSE NoFile}

InitBatch ==
    /\ InitConfig /\ InitRest
    /\ \E d \in BatchDisks : dirs = d.dirs /\ marker = d.marker

NextBatch ==
    \/ \E paths \in SeqsUpTo(Paths, MaxBatch) : BatchStart(paths, V18)
    \/ BatchAdmit
    \/ \E i \in batch.in_flight, io \in BOOLEAN : BatchComplete(i, io)
    \/ BatchReturn

SpecBatch == InitBatch /\ [][NextBatch]_vars

(* C6: during batch_update_project_version never more than 3 writes are   *)
(* in flight, whatever the number of paths and the order of completion.    *)
C6_AtMostThreeInFlight ==
    Cardinality(batch.in_flight) <= 3

\* C6's case: a fourth write waited for a slot, and 3 are in flight again.
C6_Witness ==
    /\ batch.pc = "run"
    /\ Len(batch.paths) > 3
    /\ Cardinality(batch.in_flight) = 3
    /\ 4 \in batch.in_flight
    /\ Len(batch.result) = 1

Attempted(b) == {b.result[k].i : k \in DOMAIN b.result}

(* C7: when batch_update_project_version returns, every path's write has   *)
(* been started and has completed, exactly once; it returns Err iff some   *)
(* write failed, and then the first failure in completion order; and every *)
(* write that succeeded has left the version in its file.                  *)
C7_AllAttemptedFirstErr ==
    batch.pc = "done" =>
      /\ Attempted(batch) = 1..Len(batch.paths)
      /\ Len(batch.result) = Len(batch.paths)
      /\ batch.in_flight = {}
      /\ batch.ok <=> \A k \in DOMAIN batch.result : batch.result[k].ok
      /\ ~batch.ok =>
            \E k \in DOMAIN batch.result :
                /\ ~batch.result[k].ok /\ batch.err = batch.result[k].i
                /\ \A j \in 1..(k - 1) : batch.result[j].ok
      /\ \A k \in DOMAIN batch.result :
            batch.result[k].ok =>
                marker[batch.paths[batch.result[k].i]] = FileOf(batch.version)

\* C7's case: a write failed and a sibling admitted before it succeeded
\* after it, among more paths than slots.
C7_Witness ==
    /\ batch.pc = "done" /\ ~batch.ok
    /\ Len(batch.paths) > 3
    /\ \E j, k \in DOMAIN batch.result :
          /\ j < k /\ ~batch.result[j].ok /\ batch.result[k].ok
          /\ batch.result[k].i < batch.result[j].i

(* C8: when batch_update_project_version returns Ok, the marker file of    *)
(* every path holds exactly the requested version.                         *)
C8_OkMeansAllWritten ==
    (batch.pc = "done" /\ batch.ok) =>
        \A i \in DOMAIN batch.paths :
            marker[batch.paths[i]] = FileOf(batch.version)

\* C8's case: Ok for more paths than slots, completed out of order.
C8_Witness ==
    /\ batch.pc = "done" /\ batch.ok
    /\ Len(batch.paths) > 3
    /\ \E j, k \in DOMAIN batch.result :
          j < k /\ batch.result[j].i > batch.result[k].i
    /\ \A i \in DOMAIN batch.paths :
          marker[batch.paths[i]].content = batch.version

---------------------------------------------------------------------------
(* install_node's on_progress closure: the 300 ms gate on progress events. *)
(* Times are in ms since last_emit_time was created (Instant::now() on     *)
(* line 55), so last_emit_time starts at 0.                                *)

GateMs == 300
TickMs == 100
MaxClock == 6
MaxTicks == 5

\* A gate that opens only after more than 300 ms.
gate_open_strict(now, last) == now - last > GateMs

\* now.duration_since(*last_emit_time) >= Duration::from_millis(300)
gate_open(now, last) == now - last >= GateMs

\* A gate that never records the emission.
next_last_stale(now, last) == last

\* *last_emit_time = now, inside the `if`
next_last(now, last) == IF gate_open(now, last) THEN now ELSE last

\* The clock moves on.
Advance ==
    /\ clock < MaxClock * TickMs
    /\ clock' = clock + TickMs
    /\ UNCHANGED <<cfgVars, fsVars, txVars, call, batch, hist,
                   last_emit_time, lock, tick, ticked, emitted>>

\* The transfer calls on_progress on task k: last_emit_time.lock().
TickLock(k) ==
    /\ tick[k].pc = "idle"
    /\ Len(ticked) + Cardinality({j \in Tickers : tick[j].pc # "idle"})
          < MaxTicks
    /\ lock = 0
    /\ lock' = k
    /\ tick' = [tick EXCEPT ![k].pc = "locked"]
    /\ UNCHANGED <<cfgVars, fsVars, txVars, call, batch, hist,
                   clock, last_emit_time, ticked, emitted>>

\* let now = Instant::now()
TickNow(k) ==
    /\ tick[k].pc = "locked"
    /\ tick' = [tick EXCEPT ![k].pc = "timed", ![k].now = clock,
                            ![k].transferred = Len(ticked) + 1]
    /\ UNCHANGED <<cfgVars, fsVars, txVars, call, batch, hist,
                   clock, last_emit_time, lock, ticked, emitted>>

\* The `if`: update last_emit_time and emit, or drop; the guard is released.
TickGate(k) ==
    LET now == tick[k].now
        open == gate_open(now, last_emit_time)
    IN  /\ tick[k].pc = "timed"
        /\ last_emit_time' = next_last(now, last_emit_time)
        /\ emitted' = IF open
                      THEN Append(emitted, [t |-> now, by |-> k,
                                   transferred |-> tick[k].transferred])
                      ELSE emitted
        /\ ticked' = Append(ticked,
                        [t |-> now, by |-> k, last |-> last_emit_time,
                         after |-> last_emit_time', sent |-> open,
                         transferred |-> tick[k].transferred])
        /\ lock' = 0
        /\ tick' = [tick EXCEPT ![k] = NoTick]
        /\ UNCHANGED <<cfgVars, fsVars, txVars, call, batch, hist, clock>>

InitThrottle == InitConfig /\ InitRest /\ dirs = {} /\ marker = [p \in Paths |-> NoFile]

NextThrottle ==
    \/ Advance
    \/ \E k \in Tickers : TickLock(k)
    \/ \E k \in Tickers : TickNow(k)
    \/ \E k \in Tickers : TickGate(k)

SpecThrottle == InitThrottle /\ [][NextThrottle]_vars

TickTimes == [i \in DOMAIN ticked |-> ticked[i].t]
EmittedTimes == [i \in DOMAIN emitted |-> emitted[i].t]

\* Ticks at t = 0, 100, 200, 300 and 400 ms, transferred increasing.
FiveTicks ==
    /\ TickTimes = <<0, 100, 200, 300, 400>>
    /\ \A i \in 1..4 : ticked[i].transferred < ticked[i + 1].transferred

(* C9 (as claimed): of ticks at t = 0, 100, 200, 300 and 400 ms, exactly   *)
(* those at t = 0 and t = 300 are emitted.                                 *)
C9_EmitsAt0And300 ==
    FiveTicks => EmittedTimes = <<0, 300>>

(* C9 (amended): of ticks at t = 0, 100, 200, 300 and 400 ms, exactly the  *)
(* one at t = 300 is emitted: last_emit_time starts at the creation time,  *)
(* so the tick at t = 0 is inside the gate and is dropped.                 *)
C9_EmitsAt300Only ==
    FiveTicks =>
        /\ EmittedTimes = <<300>>
        /\ \A i \in DOMAIN ticked : ticked[i].sent <=> ticked[i].t = 300

\* C9's case: the five ticks have been handled.
C9_Witness ==
    FiveTicks /\ Len(emitted) = 1 /\ emitted[1].transferred = 4

(* C10: any two emitted progress events are at least 300 ms apart, from    *)
(* whichever tasks the ticks come; a tick less than 300 ms after the last  *)
(* emission is dropped and leaves last_emit_time as it was, which is the   *)
(* time of the last emission.                                              *)
C10_EmissionsGated ==
    /\ \A j, k \in DOMAIN emitted :
          j < k => emitted[k].t - emitted[j].t >= 300
    /\ \A i \in DOMAIN ticked :
          /\ ticked[i].t - ticked[i].last < 300
                => ~ticked[i].sent /\ ticked[i].after = ticked[i].last
          /\ ticked[i].sent => ticked[i].after = ticked[i].t
    /\ emitted # <<>> => last_emit_time = emitted[Len(emitted)].t

\* C10's case: two emissions from different tasks with a dropped tick of the
\* other task between them.
C10_Witness ==
    \E i, j, k \in DOMAIN ticked :
        /\ i < j /\ j < k
        /\ ticked[i].sent /\ ~ticked[j].sent /\ ticked[k].sent
        /\ ticked[i].by # ticked[k].by /\ ticked[j].by # ticked[i].by
        /\ ticked[j].t > ticked[i].t
        /\ Len(emitted) = 2

---------------------------------------------------------------------------
(* The ConfigStore on its own: the Projects store under any sequence of    *)
(* draft mutations, apply() and discard().  A mutation is update_version   *)
(* on latest(), which may fail and leave the draft as it was.              *)

MaxEdits == 2

StoreBase == IF hist.op = "mutate" THEN hist.base ELSE data(projects)
StoreRun == IF hist.op = "mutate" THEN hist.n ELSE 0

StoreMutate(name, v) ==
    /\ StoreRun < MaxEdits
    /\ projects' = [projects EXCEPT !.working =
            update_version(latest(projects), latest(groups), name, v).list]
    /\ hist' = [op |-> "mutate", prev |-> hist.op, n |-> StoreRun + 1,
                base |-> StoreBase, before |-> projects]

StoreApply ==
    /\ projects' = apply(projects)
    /\ hist' = [op |-> "apply", prev |-> hist.op, n |-> StoreRun,
                base |-> StoreBase, before |-> projects]

StoreDiscard ==
    /\ projects' = discard(projects)
    /\ hist' = [op |-> "discard", prev |-> hist.op, n |-> StoreRun,
                base |-> StoreBase, before |-> projects]

InitStore == Init

NextStore ==
    /\ \/ \E name \in Names, v \in Versions \cup {Lts, Dev} : StoreMutate(name, v)
       \/ StoreApply
       \/ StoreDiscard
    /\ UNCHANGED <<groups, pFile, gFile, fsVars, txVars, call, batch, thrVars>>

SpecStore == InitStore /\ [][NextStore]_vars

\* C11: after any sequence of mutations of latest() followed by apply(),
\* latest() equals data() (and data() is the draft as it was mutated), and
\* a discard() made immediately afterwards changes nothing.
C11_ApplyMakesEqual ==
    /\ hist.op = "apply" =>
            /\ latest(projects) = data(projects)
            /\ data(projects) = latest(hist.before)
            /\ discard(projects) = projects
    /\ (hist.op = "discard" /\ hist.prev = "apply") => projects = hist.before

C11_Witness ==
    /\ hist.op = "discard" /\ hist.prev = "apply" /\ hist.n = 0
    /\ data(projects) # StartProjects
    /\ data(projects)["A"].version = GroupRef(Lts)
    /\ data(projects)["B"].version = Explicit(V20)

\* C12: after mutations of latest() followed by discard(), with no apply()
\* in between, latest() equals the persisted snapshot as it was before the
\* mutations, and the persisted snapshot is unchanged.
C12_DiscardRestores ==
    (hist.op = "discard" /\ hist.prev = "mutate") =>
        /\ latest(projects) = hist.base
        /\ data(projects) = hist.base

C12_Witness ==
    /\ hist.op = "discard" /\ hist.prev = "mutate" /\ hist.n = 2
    /\ latest(hist.before)["A"].version = GroupRef(Lts)
    /\ latest(hist.before)["B"].version = Explicit(V20)
    /\ hist.base = StartProjects
    /\ latest(projects) = StartProjects

---------------------------------------------------------------------------
(* Further claims about the transactions, checked under Spec.              *)

Members(glist, g) == glist[GroupAt(glist, g)].projects
VersionOf(glist, g) == glist[GroupAt(glist, g)].version

(* C13: after a successful change_with_group(A, g), where A's directory    *)
(* exists and group g has version v, A's marker file contains exactly v,   *)
(* A's path is in g's member list in the persisted and saved groups, and   *)
(* applying both domains once more changes nothing.                        *)
C13_GroupChangeEndToEnd ==
    \A t \in Tasks :
        (/\ Returned(t) /\ tx[t].ok /\ tx[t].op = "group"
         /\ tx[t].path \in dirs)
        => /\ HasGroup(data(groups), tx[t].arg)
           /\ marker[tx[t].path] = FileOf(VersionOf(data(groups), tx[t].arg))
           /\ tx[t].path \in Members(data(groups), tx[t].arg)
           /\ tx[t].path \in Members(gFile, tx[t].arg)
           /\ apply(projects) = projects
           /\ apply(groups) = groups

\* C13's case: A, holding an explicit 18, was changed to group old, whose
\* version its marker now reads.
C13_Witness ==
    \E t \in Tasks :
        /\ Returned(t) /\ tx[t].ok /\ tx[t].op = "group"
        /\ tx[t].name = "A" /\ tx[t].arg = Old /\ "/a" \in dirs
        /\ data(tx[t].pre.projects)["A"].version = Explicit(V18)
        /\ marker["/a"] = FileOf(V18)
        /\ "/a" \in Members(data(groups), Old)
        /\ "/a" \notin Members(data(tx[t].pre.groups), Old)

\* Membership and assignment agree in a pair of project and group lists.
Agree(plist, glist) ==
    \A n \in DOMAIN plist, i \in DOMAIN glist :
        plist[n].path \in glist[i].projects
            <=> plist[n].version = GroupRef(glist[i].name)

(* C14 (as claimed): in every persisted state reached by any sequence of   *)
(* change_with_version and change_with_group calls, a project's path is in *)
(* a group's member set if and only if the project's assigned version is a *)
(* reference to that group.                                                *)
C14_MembershipAgrees ==
    NoneInFlight => Agree(data(projects), data(groups))

\* A call of change_with_version that has run its block, past the await or not.
RanVersion(t) == tx[t].op = "version" /\ tx[t].pc \in {"sync", "done"}

(* C15 (as claimed): change_with_version with an explicit version leaves   *)
(* every group's member set as it was before the call, whatever the        *)
(* project's previous assignment was.                                      *)
C15_MemberSetsUnaltered ==
    \A t \in Tasks :
        RanVersion(t) =>
            \A i \in DOMAIN latest(groups) :
                latest(groups)[i].projects = latest(tx[t].pre.groups)[i].projects

(* C15 (amended): change_with_version with an explicit version changes the *)
(* member sets of the groups draft only by removing the project's own path *)
(* from the group that held it: no path is added, no other project's path  *)
(* is removed, and no group's name or version changes.                     *)
C15_OnlyOwnPathLeaves ==
    \A t \in Tasks :
        RanVersion(t) =>
            /\ DOMAIN latest(groups) = DOMAIN latest(tx[t].pre.groups)
            /\ \A i \in DOMAIN latest(groups) :
                   /\ latest(groups)[i].projects =
                          latest(tx[t].pre.groups)[i].projects \ {tx[t].path}
                   /\ latest(groups)[i].name = latest(tx[t].pre.groups)[i].name
                   /\ latest(groups)[i].version =
                          latest(tx[t].pre.groups)[i].version

\* C15's case: A and B were members of lts, and A was given an explicit version.
C15_Witness ==
    \E t \in Tasks :
        /\ Returned(t) /\ tx[t].ok /\ tx[t].op = "version" /\ tx[t].name = "A"
        /\ Members(latest(tx[t].pre.groups), Lts) = {"/a", "/b"}
        /\ Members(latest(groups), Lts) = {"/b"}
        /\ Members(data(groups), Lts) = {"/b"}

(* C16: when every step of change_with_version succeeds, the projects      *)
(* draft is applied and saved; the groups draft is applied and saved if    *)
(* and only if update_projects reported a change; and groups are applied   *)
(* only after projects were applied and saved.                             *)
C16_CommitOrderAndNeed ==
    \A t \in Tasks :
        (Returned(t) /\ tx[t].op = "version") =>
            /\ tx[t].ok =>
                   /\ tx[t].appliedP
                   /\ data(projects) = latest(projects)
                   /\ pFile = data(projects)
                   /\ tx[t].appliedG <=> tx[t].need
                   /\ tx[t].need =>
                          /\ data(groups) = latest(groups)
                          /\ gFile = data(groups)
                   /\ ~tx[t].need => data(groups) = data(tx[t].pre.groups)
            /\ tx[t].appliedG =>
                   /\ tx[t].appliedP
                   /\ data(projects) = latest(projects)
                   /\ pFile = data(projects)

(* C16's case: a change of B to an explicit version succeeded with no      *)
(* member list to change, while the groups draft still held the change of  *)
(* an earlier failed call, which stayed unapplied.                         *)
C16_Witness ==
    \E t \in Tasks :
        /\ Returned(t) /\ tx[t].ok /\ tx[t].op = "version" /\ tx[t].name = "B"
        /\ ~tx[t].need /\ tx[t].appliedP /\ ~tx[t].appliedG
        /\ latest(groups) # data(groups)
        /\ data(projects)["B"].version = Explicit(V20)

\* A project's assignment is resolvable: an explicit version, or a reference
\* to a group of the given list.
Resolvable(version, glist) ==
    version.kind = "group" => HasGroup(glist, version.value)

(* C17 (as claimed): in every persisted Projects snapshot reached by any   *)
(* sequence of change_with_version and change_with_group calls, successful *)
(* or failed, no project holds a reference to a group name that does not   *)
(* exist in the persisted Groups.  The stored assignment is one string, so *)
(* the name of no group, stored by change_with_group, is such a reference. *)
C17_NoDanglingReference ==
    \A n \in DOMAIN data(projects) :
        /\ Resolvable(data(projects)[n].version, data(groups))
        /\ data(projects)[n].version.kind = "explicit"
               => data(projects)[n].version.value \in Versions

\* A store whose draft holds a mutation neither applied nor discarded.
Open(store) == latest(store) # data(store)

(* C18 (as claimed): between a transaction's first mutation of a domain's  *)
(* working draft and its matching apply() or discard(), no other command   *)
(* reads, mutates or applies that draft: every call of change_with_version *)
(* or change_with_group starts on drafts that hold no mutation of another  *)
(* transaction still waiting for its apply() or discard().                 *)
C18_NoCommandOnOpenDraft ==
    \A t \in Tasks :
        tx[t].pc \in {"sync", "done"} =>
            /\ ~Open(tx[t].pre.projects)
            /\ ~Open(tx[t].pre.groups)

\* The version a project runs: its explicit version or its group's version.
EffectiveVersion(plist, glist, name) ==
    IF plist[name].version.kind = "group"
    THEN VersionOf(glist, plist[name].version.value)
    ELSE plist[name].version.value

\* The marker of the call's project reads the persisted effective version.
MarkerWritten(t) ==
    /\ tx[t].path \in dirs
    /\ marker[tx[t].path] =
           FileOf(EffectiveVersion(data(projects), data(groups), tx[t].name))

(* C19 (as claimed): whenever change_with_version or change_with_group     *)
(* returns Ok and has applied the projects draft, sync_project_version     *)
(* returned 200 and the project's marker file contains the committed       *)
(* effective version; a 404 never leads to a commit.                       *)
C19_CommitOnlyAfterWrite ==
    \A t \in Tasks :
        (Returned(t) /\ tx[t].ok /\ tx[t].appliedP)
        => tx[t].status = 200 /\ MarkerWritten(t)

(* C19 (amended): whenever a call has applied the projects draft,          *)
(* sync_project_version returned Ok: either 200, and then the project's    *)
(* marker file contains exactly the committed effective version, or 404,   *)
(* and then the project's directory is missing and no marker exists; a     *)
(* failed marker write never leads to a commit.                            *)
C19_CommitOnlyAfterSyncOk ==
    \A t \in Tasks :
        (Returned(t) /\ tx[t].appliedP)
        => /\ tx[t].sync = "ok"
           /\ tx[t].status \in {200, 404}
           /\ tx[t].status = 200 => MarkerWritten(t)
           /\ tx[t].status = 404 =>
                  tx[t].path \notin dirs /\ ~marker[tx[t].path].exists

\* C19's case: a change committed although the directory was missing.
C19_Witness ==
    \E t \in Tasks :
        /\ Returned(t) /\ tx[t].ok /\ tx[t].appliedP /\ tx[t].status = 404
        /\ tx[t].name = "A" /\ "/a" \notin dirs
        /\ data(projects)["A"] # data(tx[t].pre.projects)["A"]
        /\ pFile = data(projects)

(* C20 (as claimed): a successful change_with_version or change_with_group *)
(* on project P commits only its own change: the persisted Projects after  *)
(* it differ from those before it at most in P's entry, even when earlier  *)
(* calls failed.                                                           *)
C20_CommitsOnlyOwnChange ==
    \A t \in Tasks :
        (Returned(t) /\ tx[t].ok)
        => \A n \in DOMAIN data(projects) :
               n # tx[t].name
               => data(projects)[n] = data(tx[t].pre.projects)[n]

====
